---- MODULE Spec2Model ----
(***************************************************************************)
(* Model of the round-robin chat server (server.js): the process-wide      *)
(* session map, the POST /chat handler up to and after its await on the    *)
(* upstream provider, and the repetition clean-up applied to each reply;   *)
(* and of the browser client (script.js): the LLMTokenGenerator object,    *)
(* its buttons, its generation loop and its fetch calls.                   *)
(*                                                                         *)
(* JavaScript strings are sequences of one-character strings, so that      *)
(* startsWith, substring, split(' '), join(' ') and toLowerCase are        *)
(* computed, not assumed.  A value that is absent from the request body    *)
(* (undefined) is the sentinel Undefined.                                  *)
(***************************************************************************)
EXTENDS Integers, Sequences, FiniteSets, TLC

VARIABLES sessions, heap, inflight, issued, lastResponse, generator, fetches

vars == <<sessions, heap, inflight, issued, lastResponse, generator, fetches>>

\* ------------------------------------------------------------ bounds ----
\* Number of /chat requests issued in a behaviour.
MaxRequests == 3

\* ------------------------------------------------------- JS values ----
\* `undefined`: a field missing from req.body.  No string and no model list
\* equals it (no string has a several-character element).
Undefined == <<"undefined">>

SPACE == " "

Min(a, b) == IF a <= b THEN a ELSE b

UpperCase ==
    <<"A","B","C","D","E","F","G","H","I","J","K","L","M",
      "N","O","P","Q","R","S","T","U","V","W","X","Y","Z">>

LowerCase ==
    <<"a","b","c","d","e","f","g","h","i","j","k","l","m",
      "n","o","p","q","r","s","t","u","v","w","x","y","z">>

\* String.prototype.toLowerCase on one character.
LowerChar(c) ==
    IF \E i \in 1..Len(UpperCase) : UpperCase[i] = c
    THEN LowerCase[CHOOSE i \in 1..Len(UpperCase) : UpperCase[i] = c]
    ELSE c

\* String.prototype.toLowerCase.
ToLowerCase(s) == [i \in 1..Len(s) |-> LowerChar(s[i])]

\* The characters the regular expression class \s matches.
IsWhitespace(c) == c \in {" ", "\t", "\n", "\r", "\f"}

\* s.substring(n): s without its first n characters.
Substring(s, n) == SubSeq(s, n + 1, Len(s))

\* s.startsWith(p).
StartsWith(s, p) == Len(p) <= Len(s) /\ SubSeq(s, 1, Len(p)) = p

\* Index of the first space of s, 0 when it has none.
FirstSpace(s) ==
    IF \E i \in 1..Len(s) : s[i] = SPACE
    THEN CHOOSE i \in 1..Len(s) : s[i] = SPACE /\ \A j \in 1..(i - 1) : s[j] # SPACE
    ELSE 0

\* s.split(' '): the pieces between single spaces; empty pieces are kept and
\* the empty string splits into one empty piece.
RECURSIVE Split(_)
Split(s) ==
    IF FirstSpace(s) = 0 THEN <<s>>
    ELSE <<SubSeq(s, 1, FirstSpace(s) - 1)>> \o Split(Substring(s, FirstSpace(s)))

\* words.join(' ').
RECURSIVE Join(_)
Join(words) ==
    IF Len(words) = 0 THEN <<>>
    ELSE IF Len(words) = 1 THEN words[1]
    ELSE words[1] \o <<SPACE>> \o Join(Tail(words))

\* words.slice(-i): the last i elements (i >= 1).
SliceLast(words, i) == SubSeq(words, Len(words) - Min(i, Len(words)) + 1, Len(words))

\* words.slice(0, i).
SliceFirst(words, i) == SubSeq(words, 1, Min(i, Len(words)))

\* words.slice(n).
SliceFrom(words, n) == SubSeq(words, n + 1, Len(words))

\* --------------------------------------------- repetition clean-up ----
\* The label of /^(Assistant:\s*)+/i, lower-cased.
AssistantLabel == <<"a","s","s","i","s","t","a","n","t",":">>

\* Whether s starts with the label, in any letter case.
HasLabel(s) ==
    /\ Len(s) >= Len(AssistantLabel)
    /\ ToLowerCase(SubSeq(s, 1, Len(AssistantLabel))) = AssistantLabel

\* s without its leading run of whitespace (the greedy \s*).
RECURSIVE SkipWhitespace(_)
SkipWhitespace(s) ==
    IF Len(s) > 0 /\ IsWhitespace(s[1]) THEN SkipWhitespace(Tail(s)) ELSE s

\* A faulty StripLabels: the pattern without the repetition, which removes
\* the first label only.
StripOneLabel(s) ==
    IF HasLabel(s)
    THEN SkipWhitespace(Substring(s, Len(AssistantLabel)))
    ELSE s

\* response.replace(/^(Assistant:\s*)+/i, '').
RECURSIVE StripLabels(_)
StripLabels(s) ==
    IF HasLabel(s)
    THEN StripLabels(SkipWhitespace(Substring(s, Len(AssistantLabel))))
    ELSE s

\* if (response.startsWith(session.fullContent)) response = response.substring(...).
RemoveFullContentPrefix(fullContent, response) ==
    IF StartsWith(response, fullContent)
    THEN Substring(response, Len(fullContent))
    ELSE response

\* The window of the overlap loop.
OverlapWindow == 5

\* A faulty MaxOverlap: the loop stops at the first i that matches, so the
\* shortest overlap is taken.
MaxOverlapShortest(existingWords, responseWords) ==
    LET limit == Min(OverlapWindow, Min(Len(existingWords), Len(responseWords)))
        matches == {i \in 1..limit :
                      ToLowerCase(Join(SliceLast(existingWords, i)))
                        = ToLowerCase(Join(SliceFirst(responseWords, i)))}
    IN IF matches = {} THEN 0
       ELSE CHOOSE i \in matches : \A j \in matches : i <= j

\* The value of maxOverlap after the loop: the largest i within the window for
\* which the lower-cased joined suffix and prefix are equal, 0 when none is.
MaxOverlap(existingWords, responseWords) ==
    LET limit == Min(OverlapWindow, Min(Len(existingWords), Len(responseWords)))
        matches == {i \in 1..limit :
                      ToLowerCase(Join(SliceLast(existingWords, i)))
                        = ToLowerCase(Join(SliceFirst(responseWords, i)))}
    IN IF matches = {} THEN 0
       ELSE CHOOSE i \in matches : \A j \in matches : j <= i

\* if (maxOverlap > 0) response = responseWords.slice(maxOverlap).join(' ').
RemoveOverlap(fullContent, response) ==
    LET existingWords == Split(fullContent)
        responseWords == Split(response)
        maxOverlap == MaxOverlap(existingWords, responseWords)
    IN IF maxOverlap > 0 THEN Join(SliceFrom(responseWords, maxOverlap)) ELSE response

\* The whole clean-up of a raw reply against the session's text.
CleanResponse(fullContent, raw) ==
    RemoveOverlap(fullContent,
                  RemoveFullContentPrefix(fullContent, StripLabels(raw)))

\* ------------------------------------------------------ request inputs ----
\* The keys the Map `sessions` may hold.
SessionIds == {"s1", "s2"}

\* The ids the requests of Spec and SpecSeq carry: one conversation.
OneSession == {"s1"}

\* The `models` arrays requests carry (model names; the provider adapter behind
\* each is the upstream call whose outcome GenerationSucceeds/GenerationFails
\* choose), besides a missing field.
ModelLists == {<<>>, <<"gpt">>, <<"gemini", "gpt">>}

\* The `prompt` strings requests carry, besides a missing field.
Prompts == {<<"a">>, <<"a", " ", "b">>}

\* The `tokensPerTurn` values requests carry.
Budgets == {0, 5}

\* The texts an upstream provider may answer with.
RawTexts ==
    {<<>>,
     <<"B", " ", "c">>,
     <<"a", " ", "b", " ", "c">>,
     <<"A", "S", "s", "i", "s", "t", "a", "n", "t", ":", " ", "c">>}

\* ----------------------------------------------------------- state ----
\* sessions     : the Map `sessions`, session id -> reference into heap
\*                (NoSession when the map has no entry for the id)
\* heap         : the session objects, by reference; a handler keeps the
\*                reference it read, also after the map entry is deleted
\* inflight     : per request number, the handler suspended at its await
\* issued       : number of requests received so far
\* lastResponse : what the most recently finished handler sent with res.json,
\*                or that it threw without answering
\* generator    : the fields of the page's LLMTokenGenerator object
\* fetches      : the fetch('/chat') calls of the page that have not been
\*                dealt with yet, each with the async function waiting for it
Refs == 1..MaxRequests

NoSession == 0

\* A reference nothing holds.
NoObject == [currentTurn |-> -1, fullContent |-> <<>>, conversationHistory |-> <<>>]

NoRequest == [pc |-> "none"]

\* What a finished handler sent, with the request it answers (its sessionId
\* and whether it carried reset: true).
Answer(sessionId, reset, kind, status, reply, modelName, turn) ==
    [sessionId |-> sessionId, reset |-> reset, kind |-> kind, status |-> status,
     reply |-> reply, modelName |-> modelName, turn |-> turn]

NoResponse == Answer("", FALSE, "none", 0, <<>>, "", -1)

\* res.json({ success: true, ... }) of the reset branch.
ResetResponse(sessionId) == Answer(sessionId, TRUE, "reset", 200, <<>>, "", -1)

\* res.json({ reply: response || " ", modelName, turn: session.currentTurn - 1, ... }).
TurnResponse(sessionId, response, modelName, currentTurn) ==
    Answer(sessionId, FALSE, "turn", 200,
           IF response = <<>> THEN <<SPACE>> ELSE response,
           modelName, currentTurn - 1)

\* res.status(500).json({ error, modelName, provider }) of the catch block.
ErrorResponse(sessionId, modelName) ==
    Answer(sessionId, FALSE, "error", 500, <<>>, modelName, -1)

\* An exception thrown outside the try block: the async handler's promise is
\* rejected and the handler itself sends nothing.
UnhandledRejection(sessionId, reset) ==
    Answer(sessionId, reset, "unhandled", 0, <<>>, "", -1)

\* The fixed instruction text of the system entry (never read back).
SystemInstruction == <<"Your task is to continue the following piece of writing ...">>

\* The object literal of a fresh session: turn 0, the prompt as text, and a
\* history of the system entry and the user entry holding the prompt.
NewSession(prompt) ==
    [currentTurn |-> 0,
     fullContent |-> prompt,
     conversationHistory |->
        <<[role |-> "system", content |-> SystemInstruction, model |-> "", turn |-> -1],
          [role |-> "user", content |-> prompt, model |-> "", turn |-> -1]>>]

\* A faulty sessions.delete: sessions.clear(), which drops every conversation.
SessionsClear(map, sessionId) == [id \in DOMAIN map |-> NoSession]

\* sessions.delete(sessionId).
SessionsDelete(map, sessionId) == [map EXCEPT ![sessionId] = NoSession]

\* sessions.set(sessionId, session).
SessionsSet(map, sessionId, ref) == [map EXCEPT ![sessionId] = ref]

\* A faulty CurrentModelIndex: the rotation is stuck on the first model.
CurrentModelIndexStuck(currentTurn, models) == 1

\* session.currentTurn % models.length, as an index into a 1-based sequence.
CurrentModelIndex(currentTurn, models) == (currentTurn % Len(models)) + 1

\* A faulty UpdateSession: the reply is appended without the separating space.
UpdateSessionNoSeparator(session, response, modelName) ==
    [currentTurn |-> session.currentTurn + 1,
     fullContent |-> session.fullContent \o response,
     conversationHistory |->
        Append(session.conversationHistory,
               [role |-> "assistant", content |-> response,
                model |-> modelName, turn |-> session.currentTurn])]

\* A faulty UpdateSession: an empty reply is not pushed to the history.
UpdateSessionSkipsEmpty(session, response, modelName) ==
    [currentTurn |-> session.currentTurn + 1,
     fullContent |-> session.fullContent \o <<SPACE>> \o response,
     conversationHistory |->
        IF response = <<>> THEN session.conversationHistory
        ELSE Append(session.conversationHistory,
                    [role |-> "assistant", content |-> response,
                     model |-> modelName, turn |-> session.currentTurn])]

\* A faulty UpdateSession: the new record takes the place of the record of the
\* previous turn instead of following it.
UpdateSessionKeepsLast(session, response, modelName) ==
    [currentTurn |-> session.currentTurn + 1,
     fullContent |-> session.fullContent \o <<SPACE>> \o response,
     conversationHistory |->
        Append(SubSeq(session.conversationHistory, 1, 2),
               [role |-> "assistant", content |-> response,
                model |-> modelName, turn |-> session.currentTurn])]

\* The three statements that record a turn in the session object.
UpdateSession(session, response, modelName) ==
    [currentTurn |-> session.currentTurn + 1,
     fullContent |-> session.fullContent \o <<SPACE>> \o response,
     conversationHistory |->
        Append(session.conversationHistory,
               [role |-> "assistant", content |-> response,
                model |-> modelName, turn |-> session.currentTurn])]

\* The references the map or a suspended handler holds.
Held(map, handlers) ==
    {map[id] : id \in SessionIds} \cup
    {handlers[r].session : r \in {q \in DOMAIN handlers : handlers[q].pc = "awaiting"}}

\* Garbage collection: an object no reference leads to is gone.
Collect(objects, map, handlers) ==
    [ref \in Refs |-> IF ref \in Held(map, handlers) THEN objects[ref] ELSE NoObject]

\* The reference a newly constructed object gets.
FreshRef(objects) == CHOOSE ref \in Refs : objects[ref] = NoObject /\
                        \A other \in Refs : objects[other] = NoObject => ref <= other

\* A slot of fetches that holds no call.
NoFetch == [pc |-> "none"]

\* this.maxTurns || 50, and the value resetConversation restores.
DefaultMaxTurns == 50

\* The object the constructor builds: no generation running, the first
\* session id, no model selected, no text. The constructor leaves maxTurns
\* unset; startGeneration assigns it before the loop reads it, so the value
\* here is never read.
NewGenerator ==
    [isGenerating |-> FALSE,
     sessionId |-> "s1",
     currentTurn |-> 0,
     maxTurns |-> DefaultMaxTurns,
     selectedModels |-> <<>>,
     fullTextContent |-> <<>>]

\* The page as it is once loaded, before any click.
PageLoaded ==
    /\ generator = NewGenerator
    /\ fetches = [n \in 1..MaxRequests |-> NoFetch]

\* The page takes no part in the step.
PageIdle == UNCHANGED <<generator, fetches>>

Init ==
    /\ sessions = [id \in SessionIds |-> NoSession]
    /\ heap = [ref \in Refs |-> NoObject]
    /\ inflight = [r \in 1..MaxRequests |-> NoRequest]
    /\ issued = 0
    /\ lastResponse = NoResponse
    /\ PageLoaded

\* ---------------------------------------------------------- actions ----
\* A faulty Advance: the prompt of the request replaces the text of a session
\* that already exists.
AdvanceAdoptsPrompt(sessionId, models, prompt, tokensPerTurn) ==
    LET created == sessions[sessionId] = NoSession
        ref == IF created THEN FreshRef(heap) ELSE sessions[sessionId]
        heap1 == IF created
                 THEN [heap EXCEPT ![ref] = NewSession(prompt)]
                 ELSE [heap EXCEPT ![ref].fullContent = prompt]
        sessions1 == IF created THEN SessionsSet(sessions, sessionId, ref) ELSE sessions
        session == heap1[ref]
        modelName == models[CurrentModelIndex(session.currentTurn, models)]
        suspended == [pc |-> "awaiting",
                      sessionId |-> sessionId,
                      models |-> models,
                      session |-> ref,
                      modelName |-> modelName,
                      context |-> session.fullContent]
        inflight1 == IF Len(models) = 0 \/ session.fullContent = Undefined
                     THEN inflight
                     ELSE [inflight EXCEPT ![issued + 1] = suspended]
    IN /\ sessions' = sessions1
       /\ inflight' = inflight1
       /\ heap' = Collect(heap1, sessions1, inflight1)
       /\ lastResponse' =
            IF Len(models) = 0
            THEN \* models[NaN] is undefined; destructuring it throws before the try
                 UnhandledRejection(sessionId, FALSE)
            ELSE IF session.fullContent = Undefined
            THEN \* session.fullContent.length throws inside the try
                 ErrorResponse(sessionId, modelName)
            ELSE lastResponse

\* A faulty Advance: the context is the text of the last entry of the history
\* (the prompt, or the latest turn) instead of the whole text so far.
AdvanceContextLastTurn(sessionId, models, prompt, tokensPerTurn) ==
    LET created == sessions[sessionId] = NoSession
        ref == IF created THEN FreshRef(heap) ELSE sessions[sessionId]
        heap1 == IF created THEN [heap EXCEPT ![ref] = NewSession(prompt)] ELSE heap
        sessions1 == IF created THEN SessionsSet(sessions, sessionId, ref) ELSE sessions
        session == heap1[ref]
        modelName == models[CurrentModelIndex(session.currentTurn, models)]
        suspended == [pc |-> "awaiting",
                      sessionId |-> sessionId,
                      models |-> models,
                      session |-> ref,
                      modelName |-> modelName,
                      context |->
                        IF Len(session.conversationHistory) = 0
                        THEN session.fullContent
                        ELSE session.conversationHistory[
                                 Len(session.conversationHistory)].content]
        inflight1 == IF Len(models) = 0 \/ session.fullContent = Undefined
                     THEN inflight
                     ELSE [inflight EXCEPT ![issued + 1] = suspended]
    IN /\ sessions' = sessions1
       /\ inflight' = inflight1
       /\ heap' = Collect(heap1, sessions1, inflight1)
       /\ lastResponse' =
            IF Len(models) = 0
            THEN \* models[NaN] is undefined; destructuring it throws before the try
                 UnhandledRejection(sessionId, FALSE)
            ELSE IF session.fullContent = Undefined
            THEN \* session.fullContent.length throws inside the try
                 ErrorResponse(sessionId, modelName)
            ELSE lastResponse

\* The handler once it is past the logging statement and the reset test: get or
\* create the session, select the model, build the context, and either suspend
\* at the provider call or throw.
Advance(sessionId, models, prompt, tokensPerTurn) ==
    LET created == sessions[sessionId] = NoSession
        ref == IF created THEN FreshRef(heap) ELSE sessions[sessionId]
        heap1 == IF created THEN [heap EXCEPT ![ref] = NewSession(prompt)] ELSE heap
        sessions1 == IF created THEN SessionsSet(sessions, sessionId, ref) ELSE sessions
        session == heap1[ref]
        modelName == models[CurrentModelIndex(session.currentTurn, models)]
        suspended == [pc |-> "awaiting",
                      sessionId |-> sessionId,
                      models |-> models,
                      session |-> ref,
                      modelName |-> modelName,
                      context |-> session.fullContent]
        inflight1 == IF Len(models) = 0 \/ session.fullContent = Undefined
                     THEN inflight
                     ELSE [inflight EXCEPT ![issued + 1] = suspended]
    IN /\ sessions' = sessions1
       /\ inflight' = inflight1
       /\ heap' = Collect(heap1, sessions1, inflight1)
       /\ lastResponse' =
            IF Len(models) = 0
            THEN \* models[NaN] is undefined; destructuring it throws before the try
                 UnhandledRejection(sessionId, FALSE)
            ELSE IF session.fullContent = Undefined
            THEN \* session.fullContent.length throws inside the try
                 ErrorResponse(sessionId, modelName)
            ELSE lastResponse

\* The reset branch: sessions.delete and the success answer.
Reset(sessionId) ==
    /\ sessions' = SessionsDelete(sessions, sessionId)
    /\ heap' = Collect(heap, sessions', inflight)
    /\ lastResponse' = ResetResponse(sessionId)
    /\ UNCHANGED inflight

\* A faulty Chat: one handler at a time for the whole server, so a request
\* waits while any handler is suspended at its provider call.
ChatOneAtATime(sessionId, models, prompt, tokensPerTurn, reset) ==
    /\ \A r \in 1..MaxRequests : inflight[r].pc = "none"
    /\ issued < MaxRequests
    /\ issued' = issued + 1
    /\ IF models = Undefined
       THEN /\ lastResponse' = UnhandledRejection(sessionId, reset)
            /\ UNCHANGED <<sessions, heap, inflight>>
       ELSE IF reset
       THEN Reset(sessionId)
       ELSE Advance(sessionId, models, prompt, tokensPerTurn)

\* app.post('/chat') from its first statement to its first await (or to its
\* return or throw when it reaches none).
Chat(sessionId, models, prompt, tokensPerTurn, reset) ==
    /\ issued < MaxRequests
    /\ issued' = issued + 1
    /\ IF models = Undefined
       THEN \* models.length in the logging statement throws before the reset test
            /\ lastResponse' = UnhandledRejection(sessionId, reset)
            /\ UNCHANGED <<sessions, heap, inflight>>
       ELSE IF reset
       THEN Reset(sessionId)
       ELSE Advance(sessionId, models, prompt, tokensPerTurn)

\* A faulty GenerationSucceeds: a reply that is empty after the clean-up is
\* treated as a failure and answered from the catch block.
GenerationRejectsEmpty(r, raw) ==
    /\ inflight[r].pc = "awaiting"
    /\ LET session == heap[inflight[r].session]
           response == CleanResponse(session.fullContent, raw)
           updated == UpdateSession(session, response, inflight[r].modelName)
       IN IF response = <<>>
          THEN /\ lastResponse' = ErrorResponse(inflight[r].sessionId, inflight[r].modelName)
               /\ inflight' = [inflight EXCEPT ![r] = NoRequest]
               /\ heap' = Collect(heap, sessions, inflight')
               /\ UNCHANGED sessions
          ELSE /\ sessions' = SessionsSet(sessions, inflight[r].sessionId, inflight[r].session)
               /\ inflight' = [inflight EXCEPT ![r] = NoRequest]
               /\ heap' = Collect([heap EXCEPT ![inflight[r].session] = updated],
                                  sessions', inflight')
               /\ lastResponse' = TurnResponse(inflight[r].sessionId, response,
                                               inflight[r].modelName, updated.currentTurn)
    /\ UNCHANGED issued

\* The provider call of request r resolves with text raw: clean it against the
\* session object the handler holds (as it is now, not as it was when the
\* context was built), record the turn, store the object under the request's
\* id and answer.
GenerationSucceeds(r, raw) ==
    /\ inflight[r].pc = "awaiting"
    /\ LET session == heap[inflight[r].session]
           response == CleanResponse(session.fullContent, raw)
           updated == UpdateSession(session, response, inflight[r].modelName)
       IN /\ sessions' = SessionsSet(sessions, inflight[r].sessionId, inflight[r].session)
          /\ inflight' = [inflight EXCEPT ![r] = NoRequest]
          /\ heap' = Collect([heap EXCEPT ![inflight[r].session] = updated],
                             sessions', inflight')
          /\ lastResponse' = TurnResponse(inflight[r].sessionId, response,
                                          inflight[r].modelName, updated.currentTurn)
    /\ UNCHANGED issued

\* A faulty GenerationFails: the turn counter is advanced before the failure
\* is noticed.
GenerationFailsAfterCount(r) ==
    /\ inflight[r].pc = "awaiting"
    /\ lastResponse' = ErrorResponse(inflight[r].sessionId, inflight[r].modelName)
    /\ inflight' = [inflight EXCEPT ![r] = NoRequest]
    /\ heap' = Collect([heap EXCEPT ![inflight[r].session].currentTurn = @ + 1],
                       sessions, inflight')
    /\ UNCHANGED <<sessions, issued>>

\* The provider call of request r rejects, its answer cannot be read, or the
\* provider branch throws before calling (unsupported provider, missing
\* credentials): the catch block answers with status 500.
GenerationFails(r) ==
    /\ inflight[r].pc = "awaiting"
    /\ lastResponse' = ErrorResponse(inflight[r].sessionId, inflight[r].modelName)
    /\ inflight' = [inflight EXCEPT ![r] = NoRequest]
    /\ heap' = Collect(heap, sessions, inflight')
    /\ UNCHANGED <<sessions, issued>>

\* A request with reset: true for one of ids: as the bundled client sends it
\* (sessionId and reset only), or also carrying a models array.
ResetRequest(ids) ==
    \E sessionId \in ids, models \in ModelLists \cup {Undefined} :
        Chat(sessionId, models, Undefined, 0, TRUE)

\* A request without reset for one of ids.
AdvanceRequest(ids) ==
    \E sessionId \in ids, models \in ModelLists \cup {Undefined},
       prompt \in Prompts \cup {Undefined}, tokensPerTurn \in Budgets :
        Chat(sessionId, models, prompt, tokensPerTurn, FALSE)

\* Some suspended provider call resolves.
SomeGenerationSucceeds ==
    \E r \in 1..MaxRequests, raw \in RawTexts : GenerationSucceeds(r, raw)

\* Some suspended provider call rejects.
SomeGenerationFails ==
    \E r \in 1..MaxRequests : GenerationFails(r)

\* Requests arrive at any time, also while handlers are suspended.
Next ==
    \/ ResetRequest(OneSession) /\ PageIdle
    \/ AdvanceRequest(OneSession) /\ PageIdle
    \/ SomeGenerationSucceeds /\ PageIdle
    \/ SomeGenerationFails /\ PageIdle

Spec == Init /\ [][Next]_vars

\* No handler is suspended at its provider call.
NoneInFlight == \A r \in 1..MaxRequests : inflight[r].pc = "none"

\* Requests issued one after another: the client sends the next request only
\* after the previous one has been answered.
NextSeq ==
    \/ NoneInFlight /\ ResetRequest(OneSession) /\ PageIdle
    \/ NoneInFlight /\ AdvanceRequest(OneSession) /\ PageIdle
    \/ SomeGenerationSucceeds /\ PageIdle
    \/ SomeGenerationFails /\ PageIdle

SpecSeq == Init /\ [][NextSeq]_vars

\* ------------------------------------------- two conversations ----
\* The model lists, prompts and provider texts of the two-conversation
\* specification (a part of ModelLists, Prompts and RawTexts).
PairModelLists == {<<>>, <<"gemini", "gpt">>}

PairPrompts == {<<"a">>, <<"a", " ", "b">>}

PairRawTexts == {<<>>, <<"B", " ", "c">>}

\* A reset request for either conversation, with or without a models array.
PairResetRequest ==
    \E sessionId \in SessionIds, models \in {<<>>, Undefined} :
        Chat(sessionId, models, Undefined, 0, TRUE)

\* An advance request for either conversation.
PairAdvanceRequest ==
    \E sessionId \in SessionIds, models \in PairModelLists, prompt \in PairPrompts :
        Chat(sessionId, models, prompt, 5, FALSE)

\* Some suspended provider call resolves with one of the texts.
PairGenerationSucceeds ==
    \E r \in 1..MaxRequests, raw \in PairRawTexts : GenerationSucceeds(r, raw)

\* Two clients, each with its own session id, sending requests at any time.
NextPair ==
    \/ PairResetRequest /\ PageIdle
    \/ PairAdvanceRequest /\ PageIdle
    \/ PairGenerationSucceeds /\ PageIdle
    \/ SomeGenerationFails /\ PageIdle

SpecPair == Init /\ [][NextPair]_vars

\* --------------------------------------- the clean-up on its own ----
\* The longest text drawn letter by letter.
TrimLen == 3

\* The letters texts are drawn from: one letter in both cases, another letter
\* and the space.
TrimChars == {"a", "A", "b", SPACE}

\* Every text of at most n letters of TrimChars.
TextsUpTo(n) == UNION {[1..k -> TrimChars] : k \in 0..n}

\* The session texts (session.fullContent) the clean-up is applied against:
\* every short text, a three-word text and a text of six equal words.
TrimDocuments ==
    TextsUpTo(TrimLen) \cup
    {<<"t", "h", "e", " ", "c", "a", "t", " ", "s", "a", "t">>,
     <<"a", " ", "a", " ", "a", " ", "a", " ", "a", " ", "a">>}

\* The provider replies (response) that are cleaned: every short text, a
\* reply that starts with the last two words of the three-word text, a reply
\* that repeats six words in another letter case, and replies with one label,
\* with two labels, with a label at the start and another one later, with a
\* label that is not at the start, and with a tab after the label.
TrimRaws ==
    TextsUpTo(TrimLen) \cup
    {<<"c", "a", "t", " ", "s", "a", "t", " ", "o", "n", " ", "t", "h", "e", " ", "m", "a", "t">>,
     <<"A", " ", "a", " ", "a", " ", "a", " ", "a", " ", "a", " ", "b">>,
     <<"A", "s", "s", "i", "s", "t", "a", "n", "t", ":", " ", "a">>,
     <<"a", "s", "s", "i", "s", "t", "a", "n", "t", ":", "A", "S", "S", "I", "S", "T", "A", "N", "T", ":", " ", " ", "a">>,
     <<"a", "s", "s", "i", "s", "t", "a", "n", "t", ":", " ", "a", " ", "A", "s", "s", "i", "s", "t", "a", "n", "t", ":", " ", "b">>,
     <<"a", " ", "A", "s", "s", "i", "s", "t", "a", "n", "t", ":", " ", "b">>,
     <<"A", "s", "s", "i", "s", "t", "a", "n", "t", ":", "\t", "a">>}

\* The state in which the first request of a conversation, carrying the text
\* doc as its prompt, is suspended at its provider call: the session was
\* created with doc as its text and stored.
InitTrim ==
    \E doc \in TrimDocuments :
        /\ sessions = SessionsSet([id \in SessionIds |-> NoSession], "s1", 1)
        /\ heap = [ref \in Refs |-> IF ref = 1 THEN NewSession(doc) ELSE NoObject]
        /\ inflight = [r \in 1..MaxRequests |->
                         IF r = 1
                         THEN [pc |-> "awaiting",
                               sessionId |-> "s1",
                               models |-> <<"gpt">>,
                               session |-> 1,
                               modelName |-> "gpt",
                               context |-> doc]
                         ELSE NoRequest]
        /\ issued = 1
        /\ lastResponse = NoResponse
        /\ PageLoaded

\* The provider call resolves with one of the replies, which is cleaned
\* against the session's text and recorded.
TrimReply == \E raw \in TrimRaws : GenerationSucceeds(1, raw)

NextTrim == TrimReply /\ PageIdle

SpecTrim == InitTrim /\ [][NextTrim]_vars

\* ------------------------------------------------ the browser client ----
\* The model lists the checkboxes can produce (updateSelectedModels).
ClientModelLists == {<<>>, <<"gemini", "gpt">>}

\* The trimmed texts of the prompt field.
ClientPrompts == {<<"a">>}

\* The texts of the max-turns field.
MaxTurnsInputs == {<<"-", "1">>, <<"2">>}

\* The text of the tokens-per-turn field while nobody edits it.
TokensInput == <<"5">>

\* The texts either number field can hold when any pair of values is entered.
FieldTexts ==
    {<<>>,
     <<"0">>,
     <<"-", "1">>,
     <<"5">>,
     <<"1", "0">>,
     <<"5", "0">>,
     <<"1", "0", "0">>,
     <<"1", "0", "1">>,
     <<"1", "0", "0", "0">>,
     <<"2", "0", "0", "0">>,
     <<"5", "0", "0", "0">>,
     <<"5", "0", "0", "1">>,
     <<"0", "x", "1", "0">>,
     <<"1", "e", "3">>,
     <<" ", "7">>,
     <<"a", "b", "c">>}

\* The digits of the radixes up to 16, in the order of their values.
Digits == <<"0","1","2","3","4","5","6","7","8","9","a","b","c","d","e","f">>

\* The value of c as a digit of the radix, -1 when it is no such digit.
DigitValue(c, radix) ==
    IF \E i \in 1..radix : Digits[i] = LowerChar(c)
    THEN (CHOOSE i \in 1..radix : Digits[i] = LowerChar(c)) - 1
    ELSE -1

\* What parseInt returns: NaN or a number.
NaN == [nan |-> TRUE, value |-> 0]

Number(v) == [nan |-> FALSE, value |-> v]

\* s without its leading white space.
RECURSIVE TrimStart(_)
TrimStart(s) ==
    IF Len(s) > 0 /\ IsWhitespace(s[1]) THEN TrimStart(Tail(s)) ELSE s

\* The number the longest run of digits at the start of s denotes, NaN when
\* s starts with no digit; acc and seen carry the digits read so far.
RECURSIVE ParseDigits(_, _, _, _)
ParseDigits(s, radix, acc, seen) ==
    IF Len(s) > 0 /\ DigitValue(s[1], radix) >= 0
    THEN ParseDigits(Tail(s), radix, acc * radix + DigitValue(s[1], radix), TRUE)
    ELSE IF seen THEN Number(acc) ELSE NaN

\* parseInt(text, radix), radix 0 for a call without radix: white space and
\* a sign are skipped, without radix a 0x prefix selects base 16, and the
\* digits are read up to the first character that is none.
ParseInt(text, radix) ==
    LET s == TrimStart(text)
        negative == Len(s) > 0 /\ s[1] = "-"
        unsigned == IF Len(s) > 0 /\ s[1] \in {"+", "-"} THEN Tail(s) ELSE s
        hex == /\ radix = 0
               /\ Len(unsigned) >= 2
               /\ unsigned[1] = "0"
               /\ LowerChar(unsigned[2]) = "x"
        parsed == IF hex
                  THEN ParseDigits(Substring(unsigned, 2), 16, 0, FALSE)
                  ELSE ParseDigits(unsigned, 10, 0, FALSE)
    IN IF parsed.nan
       THEN NaN
       ELSE Number(IF negative THEN 0 - parsed.value ELSE parsed.value)

\* parsed || fallback: NaN and zero are falsy.
OrDefault(parsed, fallback) ==
    IF parsed.nan \/ parsed.value = 0 THEN fallback ELSE parsed.value

\* parseInt(value) || 50.
MaxTurnsOf(input) == OrDefault(ParseInt(input, 0), DefaultMaxTurns)

\* The fallback of the tokens-per-turn field.
TokensPerTurn == 5

\* parseInt(value) || 5.
TokensPerTurnOf(input) == OrDefault(ParseInt(input, 0), TokensPerTurn)

\* The largest product validateParameters accepts.
MaxProduct == 5000

\* validateParameters: the fields are read with radix 10, and the product
\* is tested only when both numbers are positive.
ValidateParameters(tokensInput, maxTurnsInput) ==
    LET tokensPerTurn == ParseInt(tokensInput, 10)
        maxTurns == ParseInt(maxTurnsInput, 10)
        hasValues == ~tokensPerTurn.nan /\ ~maxTurns.nan
    IN IF hasValues /\ tokensPerTurn.value > 0 /\ maxTurns.value > 0
       THEN tokensPerTurn.value * maxTurns.value <= MaxProduct
       ELSE TRUE

\* Date.now().toString() when the reset completes: an id not used before.
NextSessionId == "s2"

\* The server variables take no part in the step.
ServerIdle == UNCHANGED <<sessions, heap, inflight, issued, lastResponse>>

\* The fetch of the generation loop: the body it posts, the model the loop
\* will attribute the reply to, and the prompt and tokensPerTurn the loop
\* closed over.
AdvanceFetch(g, prompt, tokensPerTurn) ==
    [pc |-> "sent",
     reset |-> FALSE,
     sessionId |-> g.sessionId,
     models |-> g.selectedModels,
     prompt |-> prompt,
     tokensPerTurn |-> tokensPerTurn,
     currentModel |-> g.selectedModels[(g.currentTurn % Len(g.selectedModels)) + 1],
     handler |-> 0,
     answer |-> NoResponse]

\* The fetch of resetConversation: sessionId and reset only (the handler
\* never reads the tokensPerTurn of a reset).
ResetFetch(g) ==
    [pc |-> "sent",
     reset |-> TRUE,
     sessionId |-> g.sessionId,
     models |-> Undefined,
     prompt |-> Undefined,
     tokensPerTurn |-> 0,
     currentModel |-> "",
     handler |-> 0,
     answer |-> NoResponse]

\* The lowest slot that holds no call.
FreeSlot ==
    CHOOSE n \in 1..MaxRequests :
        fetches[n] = NoFetch /\ \A m \in 1..MaxRequests : fetches[m] = NoFetch => n <= m

\* A request can still be posted: a slot is free and the server will get to
\* the request within the requests it takes.
CanSend ==
    /\ \E n \in 1..MaxRequests : fetches[n] = NoFetch
    /\ issued + Cardinality({n \in 1..MaxRequests : fetches[n].pc = "sent"}) < MaxRequests

\* The loop from its while test to its fetch, for the loop in slot n with
\* the object as g: it posts the next request, or it throws on the missing
\* model (the catch block calls stopGeneration), or it is over.
LoopTest(g, n, prompt, tokensPerTurn) ==
    IF g.isGenerating /\ g.currentTurn < g.maxTurns
    THEN IF Len(g.selectedModels) = 0
         THEN /\ generator' = [g EXCEPT !.isGenerating = FALSE]
              /\ fetches' = [fetches EXCEPT ![n] = NoFetch]
         ELSE /\ CanSend \/ fetches[n] # NoFetch
              /\ issued + Cardinality({m \in 1..MaxRequests : fetches[m].pc = "sent"})
                   < MaxRequests
              /\ generator' = g
              /\ fetches' = [fetches EXCEPT ![n] = AdvanceFetch(g, prompt, tokensPerTurn)]
    ELSE /\ generator' = g
         /\ fetches' = [fetches EXCEPT ![n] = NoFetch]

\* A checkbox or a key field changes.
UpdateSelectedModels(models) ==
    /\ models # generator.selectedModels
    /\ generator' = [generator EXCEPT !.selectedModels = models]
    /\ UNCHANGED fetches
    /\ ServerIdle

\* A click on Start (enabled while nothing is generating, a model is selected,
\* a prompt is entered and the parameters are valid): startGeneration up to
\* its first await.
StartGeneration(prompt, tokensInput, maxTurnsInput) ==
    /\ ~generator.isGenerating
    /\ Len(generator.selectedModels) > 0
    /\ ValidateParameters(tokensInput, maxTurnsInput)
    /\ \E n \in 1..MaxRequests : fetches[n] = NoFetch
    /\ LoopTest([generator EXCEPT !.isGenerating = TRUE,
                                  !.currentTurn = 0,
                                  !.maxTurns = MaxTurnsOf(maxTurnsInput),
                                  !.fullTextContent = prompt],
                FreeSlot, prompt, TokensPerTurnOf(tokensInput))
    /\ ServerIdle

\* A click on Stop (enabled while generating): stopGeneration.
StopGeneration ==
    /\ generator.isGenerating
    /\ generator' = [generator EXCEPT !.isGenerating = FALSE]
    /\ UNCHANGED fetches
    /\ ServerIdle

\* A click on Reset: resetConversation up to its await.
ResetConversation ==
    /\ generator.sessionId # NextSessionId
    /\ CanSend
    /\ generator' = [generator EXCEPT !.isGenerating = FALSE]
    /\ fetches' = [fetches EXCEPT ![FreeSlot] = ResetFetch(generator)]
    /\ ServerIdle

\* The server takes the request of slot n: its handler runs to its first
\* await, to its answer, or to its throw.
ServerReceives(n) ==
    /\ fetches[n].pc = "sent"
    /\ Chat(fetches[n].sessionId, fetches[n].models, fetches[n].prompt,
            fetches[n].tokensPerTurn, fetches[n].reset)
    /\ fetches' =
         [fetches EXCEPT ![n] =
            IF inflight'[issued'].pc = "awaiting"
            THEN [@ EXCEPT !.pc = "handling", !.handler = issued']
            ELSE IF lastResponse'.kind = "unhandled"
            THEN [@ EXCEPT !.pc = "unanswered"]
            ELSE [@ EXCEPT !.pc = "answered", !.answer = lastResponse']]
    /\ UNCHANGED generator

\* The provider call behind slot n resolves and the handler answers.
ProviderAnswers(n, raw) ==
    /\ fetches[n].pc = "handling"
    /\ GenerationSucceeds(fetches[n].handler, raw)
    /\ fetches' = [fetches EXCEPT ![n].pc = "answered", ![n].answer = lastResponse']
    /\ UNCHANGED generator

\* The provider call behind slot n fails and the catch block answers.
ProviderFails(n) ==
    /\ fetches[n].pc = "handling"
    /\ GenerationFails(fetches[n].handler)
    /\ fetches' = [fetches EXCEPT ![n].pc = "answered", ![n].answer = lastResponse']
    /\ UNCHANGED generator

\* The handler of slot n threw without answering: the framework's error
\* handler answers with a page and status 500, or the connection is given up;
\* either way the fetch is settled as not ok.
ErrorPage(n) ==
    /\ fetches[n].pc = "unanswered"
    /\ fetches' = [fetches EXCEPT
                     ![n].pc = "answered",
                     ![n].answer = Answer(fetches[n].sessionId, fetches[n].reset,
                                          "unhandled", 500, <<>>, "", -1)]
    /\ UNCHANGED generator
    /\ ServerIdle

\* The answer of the loop's fetch in slot n arrives: startGeneration from the
\* await of fetch to the await of sleep, or to its end.
ResponseArrives(n) ==
    /\ fetches[n].pc = "answered"
    /\ ~fetches[n].reset
    /\ IF fetches[n].answer.status # 200
       THEN \* throw new Error(...); the catch block calls stopGeneration
            /\ generator' = [generator EXCEPT !.isGenerating = FALSE]
            /\ fetches' = [fetches EXCEPT ![n] = NoFetch]
       ELSE IF generator.isGenerating
       THEN LET shown == [generator EXCEPT
                            !.fullTextContent = @ \o <<SPACE>> \o fetches[n].answer.reply,
                            !.currentTurn = @ + 1]
            IN IF shown.currentTurn >= shown.maxTurns
               THEN /\ generator' = [shown EXCEPT !.isGenerating = FALSE]
                    /\ fetches' = [fetches EXCEPT ![n] = NoFetch]
               ELSE /\ generator' = shown
                    /\ fetches' = [fetches EXCEPT ![n].pc = "sleeping"]
       ELSE LoopTest(generator, n, fetches[n].prompt, fetches[n].tokensPerTurn)
    /\ ServerIdle

\* The sleep of the loop in slot n is over: back to the while test.
SleepEnds(n) ==
    /\ fetches[n].pc = "sleeping"
    /\ LoopTest(generator, n, fetches[n].prompt, fetches[n].tokensPerTurn)
    /\ ServerIdle

\* The fetch of resetConversation in slot n is settled: the rest of
\* resetConversation.
ResetArrives(n) ==
    /\ fetches[n].pc = "answered"
    /\ fetches[n].reset
    /\ generator' = [generator EXCEPT !.sessionId = NextSessionId,
                                      !.currentTurn = 0,
                                      !.maxTurns = DefaultMaxTurns,
                                      !.isGenerating = FALSE,
                                      !.fullTextContent = <<>>]
    /\ fetches' = [fetches EXCEPT ![n] = NoFetch]
    /\ ServerIdle

SomeUpdateSelectedModels == \E models \in ClientModelLists : UpdateSelectedModels(models)

SomeStartGeneration ==
    \E prompt \in ClientPrompts, input \in MaxTurnsInputs :
        StartGeneration(prompt, TokensInput, input)

SomeServerReceives == \E n \in 1..MaxRequests : ServerReceives(n)

SomeProviderAnswers ==
    \E n \in 1..MaxRequests, raw \in PairRawTexts : ProviderAnswers(n, raw)

SomeProviderFails == \E n \in 1..MaxRequests : ProviderFails(n)

SomeErrorPage == \E n \in 1..MaxRequests : ErrorPage(n)

SomeResponseArrives == \E n \in 1..MaxRequests : ResponseArrives(n)

SomeSleepEnds == \E n \in 1..MaxRequests : SleepEnds(n)

SomeResetArrives == \E n \in 1..MaxRequests : ResetArrives(n)

\* One page and the server: clicks at any time, requests and answers each
\* taking their time.
NextClient ==
    \/ SomeUpdateSelectedModels
    \/ SomeStartGeneration
    \/ StopGeneration
    \/ ResetConversation
    \/ SomeServerReceives
    \/ SomeProviderAnswers
    \/ SomeProviderFails
    \/ SomeErrorPage
    \/ SomeResponseArrives
    \/ SomeSleepEnds
    \/ SomeResetArrives

SpecClient == Init /\ [][NextClient]_vars


\* The same page and server where every request is answered in the end: the
\* server gets to each request, each provider call resolves or fails, each
\* answer reaches the page and each sleep ends. Nothing obliges the user to
\* click.
SpecClientLive ==
    /\ SpecClient
    /\ WF_vars(SomeServerReceives)
    /\ WF_vars(SomeProviderAnswers \/ SomeProviderFails)
    /\ WF_vars(SomeErrorPage)
    /\ WF_vars(SomeResponseArrives)
    /\ WF_vars(SomeSleepEnds)
    /\ WF_vars(SomeResetArrives)

\* A click on Start with any pair of texts in the two number fields.
StartWithParameters ==
    \E prompt \in ClientPrompts, tokensInput \in FieldTexts, maxTurnsInput \in FieldTexts :
        StartGeneration(prompt, tokensInput, maxTurnsInput)

NextParameters ==
    \/ SomeUpdateSelectedModels
    \/ StartWithParameters

\* The page alone: models are selected and Start is clicked with every pair
\* of field texts.
SpecParameters == Init /\ [][NextParameters]_vars

\* ------------------------------------------------ reading the state ----
Requests == 1..MaxRequests

\* The session object the map holds for id.
Stored(id) == heap[sessions[id]]

HasSession(id) == sessions[id] # NoSession

\* The number of entries the session literal puts in conversationHistory.
InitialEntries == 2

\* The turn records of a session: the entries pushed after the initial ones.
TurnRecords(session) ==
    SubSeq(session.conversationHistory, InitialEntries + 1, Len(session.conversationHistory))

\* The prompt the session was created with (the user entry).
InitialPrompt(session) == session.conversationHistory[InitialEntries].content

\* The step in which handler r records its turn and answers with it.
Commits(r) ==
    /\ inflight[r].pc = "awaiting"
    /\ inflight'[r] = NoRequest
    /\ lastResponse'.kind = "turn"

\* The step in which handler r answers from the catch block after its await.
Fails(r) ==
    /\ inflight[r].pc = "awaiting"
    /\ inflight'[r] = NoRequest
    /\ lastResponse'.kind = "error"

\* ------------------------------------------------------------ claims ----
\* C1: with requests issued one after another, the turn a request records has
\* the session's next turn number t, and its contributor is entry t mod length
\* of the models list that same request carried, whatever lists earlier
\* requests carried; the answer names that contributor and that turn.
C1_RoundRobinSequential ==
    [][\A r \in Requests :
         Commits(r) =>
           LET session == heap'[inflight[r].session]
               record == session.conversationHistory[Len(session.conversationHistory)]
               models == inflight[r].models
           IN /\ record.turn = heap[inflight[r].session].currentTurn
              /\ record.turn = Len(TurnRecords(session)) - 1
              /\ record.model = models[(record.turn % Len(models)) + 1]
              /\ lastResponse'.modelName = record.model
              /\ lastResponse'.turn = record.turn]_vars

\* Three sequential turns have been recorded by requests whose lists differed:
\* turn 0 by "gpt" (entry 0 of the one-model list; the two-model list has
\* "gemini" there), turn 1 by "gpt" and turn 2 by "gemini" (entry 2 mod 2 of
\* the two-model list).
C1_Witness ==
    /\ NoneInFlight
    /\ \E id \in SessionIds :
         /\ HasSession(id)
         /\ Len(TurnRecords(Stored(id))) = 3
         /\ TurnRecords(Stored(id))[1].model = "gpt"
         /\ TurnRecords(Stored(id))[2].model = "gpt"
         /\ TurnRecords(Stored(id))[3].model = "gemini"

\* The initial prompt followed by each turn record's text, each preceded by one
\* space, in order.
RECURSIVE Reconstruct(_, _)
Reconstruct(prompt, records) ==
    IF Len(records) = 0 THEN prompt
    ELSE Reconstruct(prompt, SubSeq(records, 1, Len(records) - 1))
           \o <<SPACE>> \o records[Len(records)].content

\* C2: in every reachable state the text of every stored session is its
\* initial prompt followed by the text of each of its turn records, in history
\* order, each preceded by exactly one space.
C2_DocumentIsPromptPlusTurns ==
    \A id \in SessionIds :
        HasSession(id) =>
            Stored(id).fullContent =
                Reconstruct(InitialPrompt(Stored(id)), TurnRecords(Stored(id)))

\* A stored session with two turn records, one of them empty and one not.
C2_Witness ==
    \E id \in SessionIds :
        /\ HasSession(id)
        /\ Len(TurnRecords(Stored(id))) = 2
        /\ \E i, j \in 1..2 :
             /\ TurnRecords(Stored(id))[i].content = <<>>
             /\ TurnRecords(Stored(id))[j].content # <<>>

\* A session object is constructed in this step and stored under id.
Creates(id) ==
    /\ ~HasSession(id)
    /\ sessions'[id] # NoSession
    /\ heap[sessions'[id]] = NoObject

\* C3: the turn counter of every stored session equals the number of its turn
\* records; a session is created with counter 0, and every recorded turn
\* raises the counter of the session it is recorded in by exactly 1.
C3_TurnIndexIsHistoryLength ==
    /\ [](\A id \in SessionIds :
            HasSession(id) => Stored(id).currentTurn = Len(TurnRecords(Stored(id))))
    /\ [][/\ \A id \in SessionIds :
               Creates(id) => heap'[sessions'[id]].currentTurn = 0
          /\ \A r \in Requests :
               Commits(r) =>
                 heap'[inflight[r].session].currentTurn
                   = heap[inflight[r].session].currentTurn + 1]_vars

\* A stored session whose counter has reached 2.
C3_Witness ==
    \E id \in SessionIds : HasSession(id) /\ Stored(id).currentTurn = 2

\* C4: the step in which a provider call fails changes neither the map nor any
\* field of any stored session (no partial turn), and the step in which a
\* provider call succeeds raises the turn counter of its session by exactly 1,
\* also when an earlier call on that session failed.
C4_FailedGenerationLeavesSession ==
    [][/\ \A r \in Requests :
            Fails(r) =>
              /\ sessions' = sessions
              /\ \A id \in SessionIds : HasSession(id) => heap'[sessions[id]] = Stored(id)
       /\ \A r \in Requests :
            Commits(r) =>
              /\ heap'[inflight[r].session].currentTurn
                   = heap[inflight[r].session].currentTurn + 1
              /\ Len(TurnRecords(heap'[inflight[r].session]))
                   = Len(TurnRecords(heap[inflight[r].session])) + 1]_vars

\* A provider call has just failed on a session that already holds a turn.
C4_Witness ==
    /\ lastResponse.kind = "error"
    /\ \E id \in SessionIds :
         /\ lastResponse.sessionId = id
         /\ HasSession(id)
         /\ Stored(id).currentTurn >= 1

\* The arguments the interface calls invalid: an empty models list, a budget
\* that is not positive, or no prompt when the id has no session yet.
InvalidArgument(sessionId, models, prompt, tokensPerTurn) ==
    \/ models = <<>>
    \/ tokensPerTurn <= 0
    \/ prompt = Undefined /\ ~HasSession(sessionId)

\* C5 (as claimed): the handling of an advance-request with an invalid argument
\* changes neither the map nor any session object (none is created) and does not
\* reach the provider call.
C5_InvalidArgumentRejected ==
    [][\A sessionId \in OneSession, models \in ModelLists,
          prompt \in Prompts \cup {Undefined}, tokensPerTurn \in Budgets :
          (/\ InvalidArgument(sessionId, models, prompt, tokensPerTurn)
           /\ Chat(sessionId, models, prompt, tokensPerTurn, FALSE))
          => /\ sessions' = sessions
             /\ heap' = heap
             /\ inflight' = inflight]_vars

\* C6 (as claimed): the handling of a request with reset: true leaves no session
\* under its id and answers with success, whether or not the request carries a
\* models array, a prompt or a budget.
C6_ResetIgnoresOtherFields ==
    [][\A sessionId \in OneSession, models \in ModelLists \cup {Undefined},
          prompt \in Prompts \cup {Undefined}, tokensPerTurn \in Budgets :
          Chat(sessionId, models, prompt, tokensPerTurn, TRUE)
          => /\ sessions'[sessionId] = NoSession
             /\ lastResponse' = ResetResponse(sessionId)]_vars

\* C7 (as claimed): the handling of a request with reset: true for an id that
\* has no session is answered with success and leaves the map as it is, and
\* after the handling of any reset request a second one finds no session under
\* the id, so that it leaves the map as the first one left it.
C7_ResetIdempotent ==
    [][\A sessionId \in OneSession, models \in ModelLists \cup {Undefined} :
          Chat(sessionId, models, Undefined, 0, TRUE)
          => /\ ~HasSession(sessionId) =>
                  /\ lastResponse'.status = 200
                  /\ sessions' = sessions
             /\ SessionsDelete(sessions', sessionId) = sessions']_vars

\* The request answered last was a reset for sessionId and nothing is in flight.
JustReset(sessionId) ==
    /\ NoneInFlight
    /\ lastResponse.reset
    /\ lastResponse.sessionId = sessionId

\* C8 (as claimed): with nothing in flight, the advance-request that follows a
\* reset request for the same id finds no session and starts a new one: text
\* equal to its own prompt, turn counter 0, no turn records, and the first
\* entry of its models list selected for the turn.
C8_AdvanceAfterResetIsFresh ==
    [][\A sessionId \in OneSession, models \in ModelLists \ {<<>>},
          prompt \in Prompts, tokensPerTurn \in Budgets :
          (/\ JustReset(sessionId)
           /\ Chat(sessionId, models, prompt, tokensPerTurn, FALSE))
          => /\ Creates(sessionId)
             /\ heap'[sessions'[sessionId]] = NewSession(prompt)
             /\ inflight'[issued + 1].pc = "awaiting"
             /\ inflight'[issued + 1].modelName = models[1]]_vars

\* C9 (as claimed): no two handlers are suspended at their provider calls for
\* the same session id at once, and the model a suspended handler selected is
\* the round-robin model of the turn its session is at.
C9_PerSessionSerialized ==
    /\ \A r1, r2 \in Requests :
         (/\ r1 # r2
          /\ inflight[r1].pc = "awaiting"
          /\ inflight[r2].pc = "awaiting")
         => inflight[r1].sessionId # inflight[r2].sessionId
    /\ \A r \in Requests :
         inflight[r].pc = "awaiting" =>
           inflight[r].modelName =
             inflight[r].models[(heap[inflight[r].session].currentTurn
                                   % Len(inflight[r].models)) + 1]

\* C10 (as claimed): a handler that began before a reset of its id and records
\* its turn after it - the map no longer holds the object the handler holds -
\* leaves the map entry of the id as the reset, or a later request, left it.
C10_NoResurrectedSession ==
    [][\A r \in Requests :
         (/\ Commits(r)
          /\ sessions[inflight[r].sessionId] # inflight[r].session)
         => sessions'[inflight[r].sessionId] = sessions[inflight[r].sessionId]]_vars

\* Handler r is suspended at its provider call on behalf of id.
AwaitingFor(r, id) == inflight[r].pc = "awaiting" /\ inflight[r].sessionId = id

\* C11: advance requests for distinct session ids do not block each other.
\* While a handler for id A is suspended at its provider call, an advance
\* request for any other id B can start (as long as the request budget of the
\* model is not used up) and a handler suspended for B can be answered; and
\* when a handler for B finishes in that situation, it has recorded its turn
\* in B's session and answered with it (or answered with the error payload),
\* while the handler for A is still suspended, untouched.
C11_DistinctIdsDoNotBlock ==
    /\ [](\A A \in SessionIds, B \in SessionIds, rA \in Requests :
            (A # B /\ AwaitingFor(rA, A)) =>
                /\ issued < MaxRequests =>
                     \A prompt \in PairPrompts :
                         ENABLED Chat(B, <<"gemini", "gpt">>, prompt, 5, FALSE)
                /\ \A rB \in Requests :
                     AwaitingFor(rB, B) => ENABLED GenerationFails(rB))
    /\ [][\A A \in SessionIds, B \in SessionIds, rA \in Requests, rB \in Requests :
            (/\ A # B
             /\ AwaitingFor(rA, A)
             /\ AwaitingFor(rB, B)
             /\ inflight'[rB] = NoRequest)
            => /\ inflight'[rA] = inflight[rA]
               /\ lastResponse'.sessionId = B
               /\ \/ lastResponse'.kind = "error"
                  \/ /\ lastResponse'.kind = "turn"
                     /\ lastResponse'.status = 200
                     /\ sessions'[B] = inflight[rB].session
                     /\ heap'[sessions'[B]].currentTurn
                          = heap[inflight[rB].session].currentTurn + 1]_vars

\* The first request, for one id, is still suspended at its provider call; the
\* second request, for the other id, was issued after it and has created its
\* session, generated, recorded its turn and been answered.
C11_Witness ==
    \E A \in SessionIds, B \in SessionIds :
        /\ A # B
        /\ AwaitingFor(1, A)
        /\ issued = 2
        /\ inflight[2] = NoRequest
        /\ lastResponse.kind = "turn"
        /\ lastResponse.sessionId = B
        /\ HasSession(B)
        /\ Len(TurnRecords(Stored(B))) = 1
        /\ HasSession(A)
        /\ Len(TurnRecords(Stored(A))) = 0

\* The step is taken on behalf of id: a request for id is handled up to its
\* first await, return or throw, or a handler suspended for id finishes.
StepIsFor(id) ==
    \/ /\ issued' = issued + 1
       /\ IF inflight'[issued'].pc = "awaiting"
          THEN inflight'[issued'].sessionId = id
          ELSE lastResponse'.sessionId = id
    \/ \E r \in Requests : AwaitingFor(r, id) /\ inflight'[r] = NoRequest

\* C12: whatever is done on behalf of one session id - an advance or a reset,
\* at any point of any interleaving - the other ids keep their place in the
\* store and their session's document, turn index and history.
C12_OtherSessionsUntouched ==
    [][\A A \in SessionIds, B \in SessionIds :
         (A # B /\ StepIsFor(A)) =>
            /\ sessions'[B] = sessions[B]
            /\ HasSession(B) =>
                 /\ heap'[sessions[B]].fullContent = Stored(B).fullContent
                 /\ heap'[sessions[B]].currentTurn = Stored(B).currentTurn
                 /\ heap'[sessions[B]].conversationHistory
                      = Stored(B).conversationHistory]_vars

\* The first request recorded a turn for one id; the second created the
\* other id's session and is suspended; the third reset that other id, whose
\* session is gone from the store, while the first id's session is as it was.
C12_Witness ==
    \E A \in SessionIds, B \in SessionIds :
        /\ A # B
        /\ issued = 3
        /\ AwaitingFor(2, A)
        /\ lastResponse = ResetResponse(A)
        /\ ~HasSession(A)
        /\ HasSession(B)
        /\ Len(TurnRecords(Stored(B))) = 1

\* The text of the session handler r holds, against which its reply will be
\* cleaned.
DocumentOf(r) == heap[inflight[r].session].fullContent

\* raw is doc, one space, and a non-empty continuation that does not start
\* with a space.
IsContinuationOf(doc, raw) ==
    /\ StartsWith(raw, doc \o <<SPACE>>)
    /\ Len(raw) > Len(doc) + 1
    /\ raw[Len(doc) + 2] # SPACE

\* C13 (as claimed): for every session text doc and every continuation c with
\* no leading space, cleaning the reply doc + " " + c against doc removes the
\* doc prefix entirely and yields exactly c, with no separator left in front.
C13_PrefixRemovedExactly ==
    \A r \in Requests :
        inflight[r].pc = "awaiting" =>
            \A raw \in TrimRaws :
                IsContinuationOf(DocumentOf(r), raw) =>
                    CleanResponse(DocumentOf(r), raw)
                        = Substring(raw, Len(DocumentOf(r)) + 1)

\* The last i words of docWords are the first i words of rawWords, word by
\* word, letter case aside.
WordsAgree(docWords, rawWords, i) ==
    \A k \in 1..i :
        ToLowerCase(docWords[Len(docWords) - i + k]) = ToLowerCase(rawWords[k])

\* The lengths i, at most 5 and at most the number of words on either side,
\* at which the end of docWords agrees with the start of rawWords.
AgreeingLengths(docWords, rawWords) ==
    {i \in 1..Min(5, Min(Len(docWords), Len(rawWords))) :
        WordsAgree(docWords, rawWords, i)}

C15_TrimIdempotent ==
    \A r \in Requests :
        inflight[r].pc = "awaiting" =>
            \A raw \in TrimRaws :
                CleanResponse(DocumentOf(r), CleanResponse(DocumentOf(r), raw))
                    = CleanResponse(DocumentOf(r), raw)

\* C16 (as claimed): the text a successful advance request returns in its
\* answer is exactly the text the same request recorded in the history and
\* appended to the document, also when that text is empty.
C16_ReplyIsRecordedText ==
    [][\A r \in Requests :
         Commits(r) =>
           LET before == heap[inflight[r].session]
               after == heap'[inflight[r].session]
               record == after.conversationHistory[Len(after.conversationHistory)]
           IN /\ lastResponse'.reply = record.content
              /\ after.fullContent
                   = before.fullContent \o <<SPACE>> \o lastResponse'.reply]_vars

\* C17 (as claimed): every advance request that does not succeed is answered
\* with the error payload (the error text and the contributor's name, or
\* "unknown") and a status outside 200..299; no failure, one raised before or
\* during the choice of the contributor included, leaves the request without
\* an answer or leaves the handler as an unhandled exception.
C17_EveryFailureAnswered ==
    (lastResponse.kind # "none" /\ ~lastResponse.reset) =>
        \/ lastResponse.kind = "turn" /\ lastResponse.status = 200
        \/ /\ lastResponse.kind = "error"
           /\ lastResponse.status \notin 200..299
           /\ lastResponse.modelName # ""

\* !response || response.trim().length < 2: fewer than two letters besides
\* the white space around them.
TooShort(response) ==
    Len(SelectSeq(response, LAMBDA c : ~IsWhitespace(c))) < 2

\* C18: a turn whose cleaned text is empty or very short still completes:
\* when the provider call of a handler resolves with such a reply, the record
\* with that text is appended to the history, the turn index goes up by one,
\* the session is stored and the request is answered with success.
C18_ShortTurnCompletes ==
    [][\A r \in Requests, raw \in RawTexts :
         (/\ GenerationSucceeds(r, raw)
          /\ TooShort(CleanResponse(DocumentOf(r), raw)))
         => LET before == heap[inflight[r].session]
                after == heap'[inflight[r].session]
            IN /\ lastResponse'.kind = "turn"
               /\ lastResponse'.status = 200
               /\ lastResponse'.turn = before.currentTurn
               /\ sessions'[inflight[r].sessionId] = inflight[r].session
               /\ after.currentTurn = before.currentTurn + 1
               /\ Len(after.conversationHistory) = Len(before.conversationHistory) + 1
               /\ SubSeq(after.conversationHistory, 1, Len(before.conversationHistory))
                    = before.conversationHistory
               /\ after.conversationHistory[Len(after.conversationHistory)].content
                    = CleanResponse(DocumentOf(r), raw)]_vars

\* A turn with an empty text has just been recorded and answered with
\* success: it is the last record of the stored session.
C18_Witness ==
    /\ lastResponse.kind = "turn"
    /\ lastResponse.status = 200
    /\ HasSession(lastResponse.sessionId)
    /\ LET records == TurnRecords(Stored(lastResponse.sessionId))
       IN /\ Len(records) = lastResponse.turn + 1
          /\ Stored(lastResponse.sessionId).currentTurn = lastResponse.turn + 1
          /\ records[Len(records)].content = <<>>

\* C19: the prompt of an advance request is used only when the session is
\* new. A request (one that carries a models array, so that it gets as far as
\* looking the session up) for an id that has a session leaves that session
\* in the store with its document, turn index and history as they were,
\* whatever its prompt; for an id that has none, a session whose document is
\* the prompt, whose turn index is 0 and which has no turn record is created
\* and stored.
C19_PromptOnlyForNewSession ==
    [][\A sessionId \in SessionIds, models \in ModelLists,
          prompt \in Prompts \cup {Undefined}, tokensPerTurn \in Budgets :
         (/\ issued' = issued + 1
          /\ Chat(sessionId, models, prompt, tokensPerTurn, FALSE))
         => IF HasSession(sessionId)
            THEN /\ sessions'[sessionId] = sessions[sessionId]
                 /\ heap'[sessions[sessionId]] = Stored(sessionId)
            ELSE /\ Creates(sessionId)
                 /\ heap'[sessions'[sessionId]].fullContent = prompt
                 /\ heap'[sessions'[sessionId]].currentTurn = 0
                 /\ TurnRecords(heap'[sessions'[sessionId]]) = <<>>]_vars

\* A request has been taken for a session that already had a recorded turn:
\* its handler is suspended with the session's document, which is longer than
\* any prompt, as its context, and the session still starts with the prompt it
\* was created with.
C19_Witness ==
    \E r \in Requests :
        /\ inflight[r].pc = "awaiting"
        /\ sessions[inflight[r].sessionId] = inflight[r].session
        /\ Len(TurnRecords(Stored(inflight[r].sessionId))) = 1
        /\ inflight[r].context = Stored(inflight[r].sessionId).fullContent
        /\ inflight[r].context \notin Prompts
        /\ InitialPrompt(Stored(inflight[r].sessionId)) \in Prompts

\* text starts with prefix.
IsPrefix(prefix, text) ==
    Len(prefix) <= Len(text) /\ SubSeq(text, 1, Len(prefix)) = prefix

\* C20 (as claimed): between two resets of an id its document only grows: in
\* every step that leaves the id with a session (so no reset of it), the
\* document stored for the id before the step is a prefix of the document
\* stored after it, and a step that records a turn for the id leaves its
\* stored document strictly longer.
C20_DocumentGrowsMonotonically ==
    [][\A id \in SessionIds :
         (HasSession(id) /\ sessions'[id] # NoSession) =>
            /\ IsPrefix(Stored(id).fullContent, heap'[sessions'[id]].fullContent)
            /\ \A r \in Requests :
                 (Commits(r) /\ inflight[r].sessionId = id) =>
                    Len(heap'[sessions'[id]].fullContent)
                        > Len(Stored(id).fullContent)]_vars

\* C21: the history is append-only and in turn order. As long as a session
\* object exists (the store or a suspended handler holds it), every step leaves
\* the entries it already had in place and unmodified, and in every state the
\* turn record at position p, counted from 0, carries turn number p.
C21_HistoryAppendOnly ==
    /\ [](\A ref \in Refs :
            heap[ref] # NoObject =>
                \A p \in 1..Len(TurnRecords(heap[ref])) :
                    TurnRecords(heap[ref])[p].turn = p - 1)
    /\ [][\A ref \in Refs :
            (heap[ref] # NoObject /\ heap'[ref] # NoObject) =>
                /\ Len(heap'[ref].conversationHistory)
                     >= Len(heap[ref].conversationHistory)
                /\ SubSeq(heap'[ref].conversationHistory, 1,
                          Len(heap[ref].conversationHistory))
                     = heap[ref].conversationHistory]_vars

\* Two requests have recorded their turns in one session: the stored session
\* has the records of turns 0 and 1, in that order, the first with a text that
\* is not empty, and the answer to the second carries turn 1.
C21_Witness ==
    \E id \in SessionIds :
        /\ HasSession(id)
        /\ issued = 2
        /\ NoneInFlight
        /\ Len(TurnRecords(Stored(id))) = 2
        /\ TurnRecords(Stored(id))[1].turn = 0
        /\ TurnRecords(Stored(id))[2].turn = 1
        /\ TurnRecords(Stored(id))[1].model = TurnRecords(Stored(id))[2].model
        /\ Len(TurnRecords(Stored(id))[1].content) > 0
        /\ lastResponse.kind = "turn"
        /\ lastResponse.turn = 1

\* C22: the context given to the provider for a turn is the session's whole
\* text as it stands when the request is processed: in the step in which a
\* handler is suspended at its provider call, its context is the text of the
\* session it holds, which is the initial prompt followed by every turn
\* recorded so far, not the last turn alone.
C22_ContextIsWholeDocument ==
    [][\A r \in Requests :
         (inflight[r].pc = "none" /\ inflight'[r].pc = "awaiting") =>
            LET session == heap'[inflight'[r].session]
            IN /\ inflight'[r].context = session.fullContent
               /\ inflight'[r].context
                    = Reconstruct(InitialPrompt(session), TurnRecords(session))]_vars

\* The third request is suspended with a context made of the prompt and two
\* recorded turns, the first of which is not empty.
C22_Witness ==
    \E r \in Requests :
        /\ inflight[r].pc = "awaiting"
        /\ Len(TurnRecords(heap[inflight[r].session])) = 2
        /\ Len(TurnRecords(heap[inflight[r].session])[1].content) > 0
        /\ inflight[r].context = heap[inflight[r].session].fullContent
        /\ Len(inflight[r].context)
             > Len(InitialPrompt(heap[inflight[r].session])) + 2

\* s consists of labels only ("Assistant:" in any letter case), each followed
\* by any amount of white space.
RECURSIVE IsLabelRun(_)
IsLabelRun(s) ==
    \/ s = <<>>
    \/ /\ HasLabel(s)
       /\ \E n \in Len(AssistantLabel)..Len(s) :
            /\ \A k \in (Len(AssistantLabel) + 1)..n : IsWhitespace(s[k])
            /\ IsLabelRun(SubSeq(s, n + 1, Len(s)))

\* rest is what is left of raw once the labels at its very start, with the
\* white space after each, are taken away: nothing more of a label or of white
\* space after a label is left at the start of rest.
IsUnlabelled(raw, rest) ==
    \E n \in 0..Len(raw) :
        /\ rest = SubSeq(raw, n + 1, Len(raw))
        /\ IsLabelRun(SubSeq(raw, 1, n))
        /\ ~HasLabel(rest)
        /\ (n > 0 /\ Len(rest) > 0) => ~IsWhitespace(rest[1])

\* C23: the label step removes the one or more labels at the very start of the
\* reply ("Assistant:" in any letter case, each with the white space after
\* it), before the prefix and overlap steps run on what is left; a reply that
\* does not start with the label is left as it is by this step, and a label
\* further on in the reply stays.
C23_LeadingLabelsStripped ==
    \A r \in Requests :
        inflight[r].pc = "awaiting" =>
            \A raw \in TrimRaws :
                /\ IsUnlabelled(raw, StripLabels(raw))
                /\ ~HasLabel(raw) => StripLabels(raw) = raw
                /\ \A n \in 0..Len(raw) :
                     LET rest == SubSeq(raw, n + 1, Len(raw))
                     IN IsUnlabelled(raw, rest) =>
                          CleanResponse(DocumentOf(r), raw)
                            = RemoveOverlap(DocumentOf(r),
                                  RemoveFullContentPrefix(DocumentOf(r), rest))

\* The reply "assistant: a Assistant: b" has been cleaned and recorded as
\* "a Assistant: b": the label at its start is gone, the later one is kept.
C23_Witness ==
    /\ lastResponse.kind = "turn"
    /\ HasSession("s1")
    /\ InitialPrompt(Stored("s1")) = <<"b">>
    /\ Len(TurnRecords(Stored("s1"))) = 1
    /\ TurnRecords(Stored("s1"))[1].content = <<"a", " ", "A", "s", "s", "i", "s", "t", "a", "n", "t", ":", " ", "b">>

\* C24 (as claimed): under every interleaving of requests for a session, the
\* text a reply is cleaned against - the text of the session the handler holds
\* when its provider call resolves - is the text that handler gave to the
\* provider as context.
C24_TrimAgainstContextDocument ==
    [][\A r \in Requests :
         Commits(r) => DocumentOf(r) = inflight[r].context]_vars

\* C25 (as claimed): a failed advance request adds no session to the store.
\* When the handler that fails is the only one holding its session and the
\* session has no recorded turn - it came into being with a request that
\* failed - the id has no session after the failure, so that the next request
\* for the id creates one from its own prompt.
C25_FailedAdvanceAddsNoSession ==
    [][\A r \in Requests :
         (/\ Fails(r)
          /\ TurnRecords(heap[inflight[r].session]) = <<>>
          /\ \A other \in Requests :
               (other # r /\ inflight[other].pc = "awaiting")
               => inflight[other].session # inflight[r].session)
         => sessions'[inflight[r].sessionId] = NoSession]_vars

\* C26 (as claimed): no acknowledged turn is lost. A stored session holds only
\* turns that were answered with success, and it was put in the store after the
\* latest reset of its id; so every step that leaves the id with a session
\* leaves each turn of the session stored so far, with its turn number and
\* text, at its place in the history of the session stored afterwards.
C26_NoAcknowledgedTurnLost ==
    [][\A id \in SessionIds :
         (HasSession(id) /\ sessions'[id] # NoSession) =>
            \A p \in 1..Len(TurnRecords(Stored(id))) :
                /\ p <= Len(TurnRecords(heap'[sessions'[id]]))
                /\ TurnRecords(heap'[sessions'[id]])[p].turn
                     = TurnRecords(Stored(id))[p].turn
                /\ TurnRecords(heap'[sessions'[id]])[p].content
                     = TurnRecords(Stored(id))[p].content]_vars

\* The slots whose call belongs to a generation loop: its fetch is under way,
\* or the loop sleeps between two turns.
Loops == {n \in Requests : fetches[n].pc # "none" /\ ~fetches[n].reset}

\* The slots with a request of a generation loop that has been posted and
\* whose answer has not been taken by the loop yet.
AdvancesInFlight == {n \in Loops : fetches[n].pc # "sleeping"}

\* C27 (as claimed): the page never has two advance requests in flight at the
\* same time, and at most one generation loop is running, whatever the order
\* of the clicks on Start, Stop and Reset and of the arrival of answers.
C27_OneLoopOneRequest ==
    /\ Cardinality(AdvancesInFlight) <= 1
    /\ Cardinality(Loops) <= 1

\* The step shows a turn: displayModelResponse and currentTurn++.
Displays == generator'.currentTurn = generator.currentTurn + 1

\* C28 (as claimed): after every turn the page shows, its fullTextContent is
\* the document of the session the server stores for the page's sessionId.
C28_PageTextIsServerDocument ==
    [][Displays =>
         /\ HasSession(generator'.sessionId)
         /\ generator'.fullTextContent = Stored(generator'.sessionId).fullContent]_vars

\* C29 (as claimed): the model the page attributes a shown turn to - the entry
\* of selectedModels at its currentTurn mod length when the request was
\* posted - is the model the server used for the turn and named in its answer.
C29_AttributedModelIsServerModel ==
    [][\A n \in Requests :
         (/\ fetches[n].pc = "answered"
          /\ ~fetches[n].reset
          /\ fetches'[n] # fetches[n]
          /\ Displays)
         => fetches[n].currentModel = fetches[n].answer.modelName]_vars


\* The server has taken, or is about to take, all the requests it takes: the
\* loop can post no further request.
NoRequestLeft ==
    issued + Cardinality({n \in Requests : fetches[n].pc = "sent"}) >= MaxRequests

\* C30 (as claimed): when every request is answered in the end, a generation
\* that was started comes to isGenerating = false (or runs for as long as
\* requests can be posted), and no turn is shown beyond maxTurns.
C30_GenerationEnds ==
    /\ generator.isGenerating ~> (~generator.isGenerating \/ NoRequestLeft)
    /\ [][Displays => generator'.currentTurn <= generator'.maxTurns]_vars

\* C31 (as claimed): whenever startGeneration goes on to post requests, the
\* tokensPerTurn it posts times the maxTurns it loops to is at most 5000.
C31_ProductWithinLimit ==
    \A n \in Requests :
        (fetches[n].pc = "sent" /\ ~fetches[n].reset)
        => fetches[n].tokensPerTurn * generator.maxTurns <= MaxProduct

====
